---- MODULE Spec2Model ----
(***************************************************************************)
(* Authentication / session / account-lockout state machine of the        *)
(* Eswatini SSO service (AuthService, UserService, SessionService and the *)
(* authenticateToken middleware) over the users, sessions and audit_logs  *)
(* tables of database/schema.sql.                                         *)
(*                                                                         *)
(* Every request runs in a request slot (Procs).  One action is one SQL   *)
(* statement together with the JavaScript that follows it up to the next  *)
(* await, so requests interleave exactly at their awaits.                 *)
(*                                                                         *)
(* streak is a history variable: for each identity number, the number of  *)
(* login attempts with a wrong password made since the last successful    *)
(* login or unlock of that user.                                          *)
(*                                                                         *)
(* Time is counted in ticks of MinutesPerTick minutes.  A tick is far     *)
(* longer than a request, so the clock advances only between requests.    *)
(***************************************************************************)
EXTENDS Integers, Sequences, FiniteSets, TLC

(***************************************************************************)
(* Bounds of the model                                                    *)
(***************************************************************************)
MaxTime == 2
MaxUsers == 3
MaxSessions == 2
MaxAudit == 3

Procs == {"p1", "p2"}

(***************************************************************************)
(* Program constants                                                      *)
(***************************************************************************)
\* NULL of a TIMESTAMP column; timestamps are ticks >= 0 or NULL
NULL == -1000

\* resolution of the clock
MinutesPerTick == 30
Minutes(m) == m \div MinutesPerTick
Hours(h) == (h * 60) \div MinutesPerTick

\* MAX_LOGIN_ATTEMPTS is read from the environment (default 5): the model
\* runs the service configured with 2
MAX_LOGIN_ATTEMPTS == 2
\* minutes
LOCKOUT_TIME == 30
\* hours
ADMIN_LOCK_TIME == 1
JWT_EXPIRES_IN == 1
SESSION_LIFETIME == 24
MAX_EXTENSION == 168
\* days
JWT_REFRESH_EXPIRES_IN == 7
DEFAULT_EXTENSION == 24
PASSWORD_MIN_LENGTH == 8

Roles == {"citizen", "admin", "super_admin"}
\* roles carried by registration and user-creation requests
RegisterRoles == {"citizen", "admin"}
Statuses == {"active", "inactive", "suspended", "locked"}

(***************************************************************************)
(* Input domains: identity numbers, e-mail addresses and passwords of the *)
(* seed rows of schema.sql and of the endpoint tests.                     *)
(***************************************************************************)
AdminNid == "199001010001"
JohnNid == "199012345678"
JaneNid == "199012345679"
NationalIds == {JohnNid, JaneNid}
AllNationalIds == NationalIds \cup {AdminNid}

AdminEmail == "admin@gov.sz"
JohnEmail == "john@example.com"
JaneEmail == "jane@example.com"
Emails == {JohnEmail, JaneEmail}

PwTest == <<"T", "e", "s", "t", "1", "2", "3", "!">>
PwAdmin == <<"A", "d", "m", "i", "n", "1", "2", "3", "!">>
PwWeak == <<"w", "e", "a", "k">>
Passwords == {PwTest, PwWeak}

\* new passwords that miss one requirement of the policy each: the length
\* (seven characters), an uppercase letter, a lowercase letter, a digit, a
\* symbol
PwShort == <<"T", "e", "s", "1", "2", "3", "!">>
PwNoUpper == <<"t", "e", "s", "t", "1", "2", "3", "!">>
PwNoLower == <<"T", "E", "S", "T", "1", "2", "3", "!">>
PwNoDigit == <<"T", "e", "s", "t", "a", "b", "c", "!">>
PwNoSymbol == <<"T", "e", "s", "t", "1", "2", "3", "4">>
WeakPasswords == {PwWeak, PwShort, PwNoUpper, PwNoLower, PwNoDigit, PwNoSymbol}
NewPasswords == WeakPasswords \cup {PwAdmin}

(***************************************************************************)
(* SecurityConfig                                                         *)
(***************************************************************************)
UpperCase == {"A", "B", "C", "D", "E", "F", "G", "H", "I", "J", "K", "L", "M",
              "N", "O", "P", "Q", "R", "S", "T", "U", "V", "W", "X", "Y", "Z"}
LowerCase == {"a", "b", "c", "d", "e", "f", "g", "h", "i", "j", "k", "l", "m",
              "n", "o", "p", "q", "r", "s", "t", "u", "v", "w", "x", "y", "z"}
Digits == {"0", "1", "2", "3", "4", "5", "6", "7", "8", "9"}
SpecialChars == {"!", "@", "#", "$", "%", "^", "&", "*", "(", ")", ",", ".",
                 "?", "\"", ":", "{", "}", "|", "<", ">"}

HasChar(password, class) == \E i \in 1..Len(password) : password[i] \in class

\* variant of isStrongPassword: only the length is checked
isStrongPassword_LengthOnly(password) == Len(password) >= PASSWORD_MIN_LENGTH

isStrongPassword(password) ==
    /\ Len(password) >= PASSWORD_MIN_LENGTH
    /\ HasChar(password, UpperCase)
    /\ HasChar(password, LowerCase)
    /\ HasChar(password, Digits)
    /\ HasChar(password, SpecialChars)

\* bcrypt: the salt is abstracted, a hash is the tagged password and is
\* only ever compared through verifyPassword.
hashPassword(password) == <<"bcrypt", password>>
verifyPassword(password, hash) == hash = hashPassword(password)

(***************************************************************************)
(* State                                                                  *)
(***************************************************************************)
VARIABLES now, users, sessions, audit, pc, loc, streak
vars == <<now, users, sessions, audit, pc, loc, streak>>

\* users[i] is the row with id i (ids are fresh uuids: the next free index)
UserIds == 1..Len(users)
SessionIds == 1..Len(sessions)

NewUser(nationalId, email, hash, role) ==
    [nationalId |-> nationalId, email |-> email, password |-> hash,
     role |-> role, status |-> "active", failedAttempts |-> 0,
     lockedUntil |-> NULL, lastLogin |-> NULL]

SeedUsers ==
    << NewUser(AdminNid, AdminEmail, hashPassword(PwAdmin), "super_admin"),
       NewUser(JohnNid, JohnEmail, hashPassword(PwTest), "citizen") >>

NoToken == [type |-> "none", id |-> 0, nationalId |-> "", email |-> "", role |-> "",
            iat |-> 0, exp |-> 0]

\* locals of a request: its inputs, the rows it has read, its outcome
NoLoc == [op |-> "none", nid |-> "", email |-> "", pw |-> <<>>, role |-> "",
          uid |-> 0, sid |-> 0, token |-> NoToken, reason |-> "", res |-> "",
          count |-> 0, cur |-> <<>>]

Init ==
    /\ now = 0
    /\ users = SeedUsers
    /\ sessions = <<>>
    /\ audit = <<>>
    /\ pc = [p \in Procs |-> "idle"]
    /\ loc = [p \in Procs |-> NoLoc]
    /\ streak = [n \in AllNationalIds |-> 0]

\* rows of SELECT ... FROM users WHERE nationalId = ?
UsersByNationalId(nationalId) == {u \in UserIds : users[u].nationalId = nationalId}

\* a request is admitted while the audit log and the clock are within bounds
CanStart(p) == pc[p] = "idle" /\ Len(audit) < MaxAudit

Goto(p, label) == pc' = [pc EXCEPT ![p] = label]
SetLoc(p, l) == loc' = [loc EXCEPT ![p] = l]

\* the handler has returned or thrown: res is the outcome
Done(p, l, res) ==
    /\ pc' = [pc EXCEPT ![p] = "done"]
    /\ loc' = [loc EXCEPT ![p] = [NoLoc EXCEPT !.op = l.op, !.uid = l.uid, !.sid = l.sid,
                                              !.token = l.token, !.nid = l.nid,
                                              !.pw = l.pw, !.email = l.email, !.role = l.role,
                                              !.res = res, !.count = l.count,
                                              !.cur = l.cur]]

AuditEntry(userId, action, detail) == [userId |-> userId, action |-> action, detail |-> detail]

\* variant of logFailedAttempt: the failed attempt is not recorded
logFailedAttempt_Silent(nationalId, reason) == audit' = audit

\* AuthService.logFailedAttempt
logFailedAttempt(nationalId, reason) ==
    audit' = Append(audit, AuditEntry(NULL, "LOGIN_FAILED", <<nationalId, reason>>))

\* variant of logUserAction: the entry is written over the latest entry
logUserAction_Overwrite(userId, action, detail) ==
    audit' = IF audit = <<>>
             THEN <<AuditEntry(userId, action, detail)>>
             ELSE [audit EXCEPT ![Len(audit)] = AuditEntry(userId, action, detail)]

\* AuthService.logUserAction
logUserAction(userId, action, detail) ==
    audit' = Append(audit, AuditEntry(userId, action, detail))

(***************************************************************************)
(* Token issuer: jwt.sign is a function of the payload, the issue time    *)
(* (iat, whole seconds) and the secret.  iat has the resolution of the    *)
(* clock of the model: two tokens minted in the same tick stand for two   *)
(* tokens minted within the same second, tokens minted further apart are  *)
(* minted in different ticks.                                             *)
(***************************************************************************)
AccessToken(id, nationalId, email, role, iat) ==
    [type |-> "access", id |-> id, nationalId |-> nationalId, email |-> email,
     role |-> role, iat |-> iat, exp |-> iat + Hours(JWT_EXPIRES_IN)]

\* the refresh token of generateTokens: payload {id, type: 'refresh'}
RefreshToken(id, iat) ==
    [type |-> "refresh", id |-> id, nationalId |-> "", email |-> "", role |-> "",
     iat |-> iat, exp |-> iat + Hours(24 * JWT_REFRESH_EXPIRES_IN)]

\* variant of jwtVerify: the lifetime of the token is not looked at
jwtVerify_IgnoreExpiration(token, t) == token.type = "access"

\* jwt.verify with JWT_SECRET: the signature is ours and the token has not expired
jwtVerify(token, t) == token.type = "access" /\ t < token.exp

NewSession(userId, token, t) ==
    [userId |-> userId, token |-> token, createdAt |-> t,
     expiresAt |-> t + Hours(SESSION_LIFETIME), lastActivity |-> t,
     isActive |-> TRUE, loggedOutAt |-> NULL]

(***************************************************************************)
(* AuthService.login                                                      *)
(***************************************************************************)
\* variant of IsLocked: a lock never lapses
IsLocked_Forever(user, t) == user.lockedUntil # NULL

IsLocked(user, t) == user.lockedUntil # NULL /\ t < user.lockedUntil

\* variant of LoginCheck: the password is verified before the lock is looked at
LoginCheck_PasswordFirst(user, password, t) ==
    IF user.status = "active" /\ ~verifyPassword(password, user.password)
    THEN [next |-> "hfl_incr", reason |-> "Invalid password", res |-> "InvalidCredentials"]
    ELSE IF IsLocked(user, t)
    THEN [next |-> "login_log", reason |-> "Account locked", res |-> "AccountLocked"]
    ELSE IF user.status # "active"
    THEN [next |-> "login_log", reason |-> "Account inactive", res |-> "AccountInactive"]
    ELSE [next |-> "login_reset", reason |-> "", res |-> ""]

\* the checks of login on the row it has read, in the order of the code:
\* lock, status, password
LoginCheck(user, password, t) ==
    IF IsLocked(user, t)
    THEN [next |-> "login_log", reason |-> "Account locked", res |-> "AccountLocked"]
    ELSE IF user.status # "active"
    THEN [next |-> "login_log", reason |-> "Account inactive", res |-> "AccountInactive"]
    ELSE IF ~verifyPassword(password, user.password)
    THEN [next |-> "hfl_incr", reason |-> "Invalid password", res |-> "InvalidCredentials"]
    ELSE [next |-> "login_reset", reason |-> "", res |-> ""]

\* history: a login attempt with a wrong password for an existing user
\* extends the streak of that user, a login that passes the checks ends it
StreakAfter(nationalId, password) ==
    LET rows == UsersByNationalId(nationalId)
    IN IF rows = {} THEN streak
       ELSE LET user == users[CHOOSE r \in rows : TRUE]
            IN IF ~verifyPassword(password, user.password)
               THEN [streak EXCEPT ![nationalId] = @ + 1]
               ELSE IF ~IsLocked(user, now) /\ user.status = "active"
               THEN [streak EXCEPT ![nationalId] = 0]
               ELSE streak

\* variant of UserNotFound: the error tells that the user does not exist
UserNotFound_Told == [reason |-> "User not found", res |-> "UserNotFound"]

\* if (!users.length): logFailedAttempt 'User not found', throw 'Invalid credentials'
UserNotFound == [reason |-> "User not found", res |-> "InvalidCredentials"]

\* SELECT the user, then the checks up to the first statement that follows
LoginSelect(p, nationalId, password) ==
    /\ CanStart(p)
    /\ LET rows == UsersByNationalId(nationalId)
           l == [NoLoc EXCEPT !.op = "login", !.nid = nationalId, !.pw = password]
       IN IF rows = {}
          THEN /\ Goto(p, "login_log")
               /\ SetLoc(p, [l EXCEPT !.reason = UserNotFound.reason,
                                      !.res = UserNotFound.res])
          ELSE LET u == CHOOSE r \in rows : TRUE
                   user == users[u]
                   chk == LoginCheck(user, password, now)
               IN /\ chk.next = "login_reset" => Len(sessions) < MaxSessions
                  /\ Goto(p, chk.next)
                  /\ SetLoc(p, [l EXCEPT !.uid = u, !.email = user.email, !.role = user.role,
                                         !.count = user.failedAttempts,
                                         !.reason = chk.reason, !.res = chk.res])
    /\ streak' = StreakAfter(nationalId, password)
    /\ UNCHANGED <<now, users, sessions, audit>>

\* logFailedAttempt, then throw
LoginLogFailure(p) ==
    /\ pc[p] = "login_log"
    /\ logFailedAttempt(loc[p].nid, loc[p].reason)
    /\ Done(p, loc[p], loc[p].res)
    /\ UNCHANGED <<streak, now, users, sessions>>

\* variant of HflIncrement: the counter is computed from the row that login
\* has read (SET failedAttempts = user.failedAttempts + 1)
HflIncrement_FromReadRow(p) ==
    /\ pc[p] = "hfl_incr"
    /\ users' = [users EXCEPT ![loc[p].uid].failedAttempts = loc[p].count + 1]
    /\ Goto(p, "hfl_select")
    /\ UNCHANGED <<streak, now, sessions, audit, loc>>

\* handleFailedLogin: UPDATE users SET failedAttempts = failedAttempts + 1
HflIncrement(p) ==
    /\ pc[p] = "hfl_incr"
    /\ users' = [users EXCEPT ![loc[p].uid].failedAttempts = @ + 1]
    /\ Goto(p, "hfl_select")
    /\ UNCHANGED <<streak, now, sessions, audit, loc>>

\* handleFailedLogin: SELECT failedAttempts and the threshold test
HflSelect(p) ==
    /\ pc[p] = "hfl_select"
    /\ IF users[loc[p].uid].failedAttempts >= MAX_LOGIN_ATTEMPTS
       THEN Goto(p, "hfl_lock")
       ELSE Goto(p, "hfl_log")
    /\ SetLoc(p, [loc[p] EXCEPT !.count = users[loc[p].uid].failedAttempts])
    /\ UNCHANGED <<streak, now, users, sessions, audit>>

\* handleFailedLogin: UPDATE users SET lockedUntil = now + lockout
HflLock(p) ==
    /\ pc[p] = "hfl_lock"
    /\ users' = [users EXCEPT ![loc[p].uid].lockedUntil = now + Minutes(LOCKOUT_TIME)]
    /\ Goto(p, "hfl_log")
    /\ UNCHANGED <<streak, now, sessions, audit, loc>>

\* handleFailedLogin: logFailedAttempt, then login throws
HflLog(p) ==
    /\ pc[p] = "hfl_log"
    /\ logFailedAttempt(loc[p].nid, "Invalid password")
    /\ Done(p, loc[p], loc[p].res)
    /\ UNCHANGED <<streak, now, users, sessions>>

\* variant of resetFailedAttempts: the counter is reset, the lock is kept
resetFailedAttempts_KeepLock(userId) ==
    users' = [users EXCEPT ![userId].failedAttempts = 0]

\* resetFailedAttempts
resetFailedAttempts(userId) ==
    users' = [users EXCEPT ![userId].failedAttempts = 0, ![userId].lockedUntil = NULL]

LoginReset(p) ==
    /\ pc[p] = "login_reset"
    /\ resetFailedAttempts(loc[p].uid)
    /\ Goto(p, "login_session")
    /\ UNCHANGED <<streak, now, sessions, audit, loc>>

\* generateTokens and createSession (INSERT INTO sessions)
LoginSession(p) ==
    /\ pc[p] = "login_session"
    /\ LET token == AccessToken(loc[p].uid, loc[p].nid, loc[p].email, loc[p].role, now)
       IN /\ sessions' = Append(sessions, NewSession(loc[p].uid, token, now))
          /\ SetLoc(p, [loc[p] EXCEPT !.token = token, !.sid = Len(sessions) + 1])
    /\ Goto(p, "login_lastlogin")
    /\ UNCHANGED <<streak, now, users, audit>>

\* UPDATE users SET lastLogin = NOW()
LoginLastLogin(p) ==
    /\ pc[p] = "login_lastlogin"
    /\ users' = [users EXCEPT ![loc[p].uid].lastLogin = now]
    /\ Goto(p, "login_audit")
    /\ UNCHANGED <<streak, now, sessions, audit, loc>>

\* logSuccessfulLogin, then return {user, tokens, sessionId}
LoginAudit(p) ==
    /\ pc[p] = "login_audit"
    /\ logUserAction(loc[p].uid, "LOGIN_SUCCESS", <<>>)
    /\ Done(p, loc[p], "ok")
    /\ UNCHANGED <<streak, now, users, sessions>>

Login(p) ==
    \/ \E nationalId \in NationalIds, password \in Passwords : LoginSelect(p, nationalId, password)
    \/ LoginLogFailure(p)
    \/ HflIncrement(p)
    \/ HflSelect(p)
    \/ HflLock(p)
    \/ HflLog(p)
    \/ LoginReset(p)
    \/ LoginSession(p)
    \/ LoginLastLogin(p)
    \/ LoginAudit(p)

(***************************************************************************)
(* AuthService.register                                                   *)
(***************************************************************************)
\* variant of ExistingUsers: only the identity number is looked up
ExistingUsers_ByNationalId(nationalId, email) ==
    {u \in UserIds : users[u].nationalId = nationalId}

\* rows of SELECT id FROM users WHERE nationalId = ? OR email = ?
ExistingUsers(nationalId, email) ==
    {u \in UserIds : users[u].nationalId = nationalId \/ users[u].email = email}

\* variant of UniqueUserKeys: a users table without UNIQUE keys
UniqueUserKeys_None(nationalId, email, except) == TRUE

\* the UNIQUE keys of the users table (nationalId, email) admit the row
UniqueUserKeys(nationalId, email, except) ==
    \A u \in UserIds \ {except} :
        users[u].nationalId # nationalId /\ users[u].email # email

\* variant of RegisteredUser: the role of the registration data is stored
RegisteredUser_GivenRole(l) ==
    NewUser(l.nid, l.email, hashPassword(l.pw), l.role)

\* the row of INSERT INTO users (..., 'citizen', 'active', NOW(), NOW())
RegisteredUser(l) ==
    NewUser(l.nid, l.email, hashPassword(l.pw), "citizen")

\* the existence check, the password policy and the hashing.  userData may
\* carry a role: register does not read it.
RegisterSelect(p, nationalId, email, password, role) ==
    /\ CanStart(p)
    /\ LET l == [NoLoc EXCEPT !.op = "register", !.nid = nationalId, !.email = email,
                               !.pw = password, !.role = role]
       IN IF ExistingUsers(nationalId, email) # {}
          THEN Done(p, l, "DuplicateAccount")
          ELSE IF ~isStrongPassword(password)
          THEN Done(p, l, "WeakPassword")
          ELSE /\ Len(users) < MaxUsers
               /\ Len(sessions) < MaxSessions
               /\ Goto(p, "reg_insert")
               /\ SetLoc(p, l)
    /\ UNCHANGED <<streak, now, users, sessions, audit>>

\* INSERT INTO users (..., 'citizen', 'active', ...); a duplicate key is an error
RegisterInsert(p) ==
    /\ pc[p] = "reg_insert"
    /\ IF UniqueUserKeys(loc[p].nid, loc[p].email, 0)
       THEN /\ users' = Append(users, RegisteredUser(loc[p]))
            /\ Goto(p, "reg_session")
            /\ SetLoc(p, [loc[p] EXCEPT !.uid = Len(users) + 1])
       ELSE /\ Done(p, loc[p], "DbError")
            /\ UNCHANGED users
    /\ UNCHANGED <<streak, now, sessions, audit>>

\* generateTokens and createSession
RegisterSession(p) ==
    /\ pc[p] = "reg_session"
    /\ LET token == AccessToken(loc[p].uid, loc[p].nid, loc[p].email, "citizen", now)
       IN /\ sessions' = Append(sessions, NewSession(loc[p].uid, token, now))
          /\ SetLoc(p, [loc[p] EXCEPT !.token = token, !.sid = Len(sessions) + 1])
    /\ Goto(p, "reg_audit")
    /\ UNCHANGED <<streak, now, users, audit>>

\* logUserAction(userId, 'USER_REGISTERED'), then return {user, tokens, sessionId}
RegisterAudit(p) ==
    /\ pc[p] = "reg_audit"
    /\ logUserAction(loc[p].uid, "USER_REGISTERED", <<>>)
    /\ Done(p, loc[p], "ok")
    /\ UNCHANGED <<streak, now, users, sessions>>

Register(p) ==
    \/ \E nationalId \in NationalIds, email \in Emails, password \in Passwords,
          role \in RegisterRoles :
            RegisterSelect(p, nationalId, email, password, role)
    \/ RegisterInsert(p)
    \/ RegisterSession(p)
    \/ RegisterAudit(p)

(***************************************************************************)
(* UserService.createUser (administration)                                *)
(***************************************************************************)
CreateUserSelect(p, nationalId, email, password, role) ==
    /\ pc[p] = "idle"
    /\ LET l == [NoLoc EXCEPT !.op = "createUser", !.nid = nationalId, !.email = email,
                               !.pw = password, !.role = role]
       IN IF ExistingUsers(nationalId, email) # {}
          THEN Done(p, l, "DuplicateAccount")
          ELSE /\ Len(users) < MaxUsers
               /\ Goto(p, "cu_insert")
               /\ SetLoc(p, l)
    /\ UNCHANGED <<streak, now, users, sessions, audit>>

CreateUserInsert(p) ==
    /\ pc[p] = "cu_insert"
    /\ IF UniqueUserKeys(loc[p].nid, loc[p].email, 0)
       THEN /\ users' = Append(users, NewUser(loc[p].nid, loc[p].email,
                                              hashPassword(loc[p].pw), loc[p].role))
            /\ Done(p, [loc[p] EXCEPT !.uid = Len(users) + 1], "ok")
       ELSE /\ Done(p, loc[p], "DbError")
            /\ UNCHANGED users
    /\ UNCHANGED <<streak, now, sessions, audit>>

CreateUser(p) ==
    \/ \E nationalId \in NationalIds, email \in Emails, role \in RegisterRoles :
            CreateUserSelect(p, nationalId, email, PwTest, role)
    \/ CreateUserInsert(p)

(***************************************************************************)
(* UserService.updateUser: one UPDATE of the fields present in updates    *)
(* among name, email, role, status; a duplicate email is an error         *)
(***************************************************************************)
Undefined == "undefined"

Updated(user, updates) ==
    [user EXCEPT !.email = IF updates.email # Undefined THEN updates.email ELSE @,
                 !.role = IF updates.role # Undefined THEN updates.role ELSE @,
                 !.status = IF updates.status # Undefined THEN updates.status ELSE @]

UpdateUser(p, id, updates) ==
    /\ pc[p] = "idle"
    /\ id \in UserIds
    /\ LET l == [NoLoc EXCEPT !.op = "updateUser", !.uid = id]
       IN IF updates.email = Undefined /\ updates.role = Undefined /\ updates.status = Undefined
          THEN /\ Done(p, l, "NoValidFields")
               /\ UNCHANGED users
          ELSE IF updates.email # Undefined /\ ~UniqueUserKeys("", updates.email, id)
          THEN /\ Done(p, l, "DbError")
               /\ UNCHANGED users
          ELSE /\ users' = [users EXCEPT ![id] = Updated(@, updates)]
               /\ Done(p, l, "ok")
    /\ UNCHANGED <<streak, now, sessions, audit>>

\* router.put('/profile'): userService.updateUser(req.user.id, req.body).
\* The validators look at name and email; the body goes to updateUser whole.
UpdateProfile(p, userId, body) == UpdateUser(p, userId, body)

(***************************************************************************)
(* AuthService.logout                                                     *)
(***************************************************************************)
\* variant of OwnedRow: the row is matched by its id alone
OwnedRow_AnyOwner(s, userId, sessionId) == s = sessionId

\* WHERE id = ? AND userId = ?
OwnedRow(s, userId, sessionId) == s = sessionId /\ sessions[s].userId = userId

\* UPDATE sessions SET isActive = 0, loggedOutAt = NOW() WHERE id = ? AND userId = ?
LogoutUpdate(p, userId, sessionId) ==
    /\ CanStart(p)
    /\ sessions' = [s \in SessionIds |->
                       IF OwnedRow(s, userId, sessionId)
                       THEN [sessions[s] EXCEPT !.isActive = FALSE, !.loggedOutAt = now]
                       ELSE sessions[s]]
    /\ Goto(p, "logout_audit")
    /\ SetLoc(p, [NoLoc EXCEPT !.op = "logout", !.uid = userId, !.sid = sessionId])
    /\ UNCHANGED <<streak, now, users, audit>>

\* logUserAction(userId, 'USER_LOGGED_OUT', {sessionId}), then return true
LogoutAudit(p) ==
    /\ pc[p] = "logout_audit"
    /\ logUserAction(loc[p].uid, "USER_LOGGED_OUT", <<loc[p].sid>>)
    /\ Done(p, loc[p], "ok")
    /\ UNCHANGED <<streak, now, users, sessions>>

Logout(p) ==
    \/ \E userId \in UserIds, sessionId \in SessionIds : LogoutUpdate(p, userId, sessionId)
    \/ LogoutAudit(p)

\* req.user?.id at router.post('/logout'): the route has no authenticateToken
\* and neither the router nor server.js installs a middleware that assigns
\* req.user, so the value is undefined whatever the bearer token
LogoutRouteUser(token) == 0

\* router.post('/logout'): if (sessionId && userId) authService.logout(...);
\* then clearCookie and 200 'Logout successful'.  sessionId is the cookie
\* of the request (0: no cookie).
LogoutRoute(p, token, sessionId) ==
    LET userId == LogoutRouteUser(token)
    IN IF sessionId # 0 /\ userId # 0
       THEN LogoutUpdate(p, userId, sessionId)
       ELSE /\ pc[p] = "idle"
            /\ Done(p, [NoLoc EXCEPT !.op = "logoutRoute", !.token = token,
                                     !.sid = sessionId], "ok")
            /\ UNCHANGED <<streak, now, users, sessions, audit>>

(***************************************************************************)
(* SessionService.terminateSession / UserService.terminateSession: the    *)
(* same UPDATE as logout, no audit entry, returns true                    *)
(***************************************************************************)
TerminateSession(p, userId, sessionId) ==
    /\ pc[p] = "idle"
    /\ sessions' = [s \in SessionIds |->
                       IF OwnedRow(s, userId, sessionId)
                       THEN [sessions[s] EXCEPT !.isActive = FALSE, !.loggedOutAt = now]
                       ELSE sessions[s]]
    /\ Done(p, [NoLoc EXCEPT !.op = "terminateSession", !.uid = userId,
                             !.sid = sessionId], "ok")
    /\ UNCHANGED <<streak, now, users, audit>>

(***************************************************************************)
(* SessionService.terminateAllSessions / UserService.terminateAllSessions *)
(***************************************************************************)
\* variant of TerminatedRows: the exclusion is not applied
TerminatedRows_NoExclusion(userId, excludeSessionId) ==
    {s \in SessionIds : sessions[s].userId = userId /\ sessions[s].isActive}

\* rows matched by WHERE userId = ? AND isActive = 1 [AND id != ?]
TerminatedRows(userId, excludeSessionId) ==
    {s \in SessionIds : /\ sessions[s].userId = userId
                        /\ sessions[s].isActive
                        /\ (excludeSessionId # 0 => s # excludeSessionId)}

\* UPDATE sessions SET isActive = 0, loggedOutAt = NOW() WHERE ...
TerminateRows(rows) ==
    [s \in SessionIds |->
        IF s \in rows
        THEN [sessions[s] EXCEPT !.isActive = FALSE, !.loggedOutAt = now]
        ELSE sessions[s]]

\* SessionService: returns {terminatedCount: affectedRows}
TerminateAllSessions(p, userId, excludeSessionId) ==
    /\ pc[p] = "idle"
    /\ LET rows == TerminatedRows(userId, excludeSessionId)
       IN /\ sessions' = TerminateRows(rows)
          /\ Done(p, [NoLoc EXCEPT !.op = "terminateAll", !.uid = userId,
                                   !.sid = excludeSessionId,
                                   !.count = Cardinality(rows)], "ok")
    /\ UNCHANGED <<streak, now, users, audit>>

\* UserService: the same UPDATE, returns true
UserTerminateAllSessions(p, userId, excludeSessionId) ==
    /\ pc[p] = "idle"
    /\ sessions' = TerminateRows(TerminatedRows(userId, excludeSessionId))
    /\ Done(p, [NoLoc EXCEPT !.op = "userTerminateAll", !.uid = userId,
                             !.sid = excludeSessionId], "ok")
    /\ UNCHANGED <<streak, now, users, audit>>

TerminateAll(p) ==
    \E userId \in UserIds, excludeSessionId \in SessionIds \cup {0} :
        \/ TerminateAllSessions(p, userId, excludeSessionId)
        \/ UserTerminateAllSessions(p, userId, excludeSessionId)

(***************************************************************************)
(* authenticateToken (middleware)                                         *)
(***************************************************************************)
\* variant of AuthCheck: the status of the user row is not looked at
AuthCheck_IgnoreStatus(token, t) ==
    IF token = NoToken THEN "TokenRequired"
    ELSE IF token.type # "access" THEN "InvalidToken"
    ELSE IF ~jwtVerify(token, t) THEN "TokenExpired"
    ELSE IF token.id \notin UserIds THEN "UserNotFound"
    ELSE IF IsLocked(users[token.id], t) THEN "AccountLocked"
    ELSE "ok"

\* the checks before the session lookup: token present, jwt.verify, user row
AuthCheck(token, t) ==
    IF token = NoToken THEN "TokenRequired"
    ELSE IF token.type # "access" THEN "InvalidToken"
    ELSE IF ~jwtVerify(token, t) THEN "TokenExpired"
    ELSE IF token.id \notin UserIds THEN "UserNotFound"
    ELSE IF users[token.id].status # "active" THEN "AccountInactive"
    ELSE IF IsLocked(users[token.id], t) THEN "AccountLocked"
    ELSE "ok"

AuthStart(p, token) ==
    /\ pc[p] = "idle"
    /\ LET l == [NoLoc EXCEPT !.op = "auth", !.token = token]
           chk == AuthCheck(token, now)
       IN IF chk = "ok"
          THEN /\ Goto(p, "auth_session")
               /\ SetLoc(p, [l EXCEPT !.uid = token.id])
          ELSE Done(p, l, chk)
    /\ UNCHANGED <<streak, now, users, sessions, audit>>

\* variant of ActiveSessionRows: the lookup does not filter on isActive
ActiveSessionRows_AnyRow(userId, token) ==
    {s \in SessionIds : sessions[s].userId = userId /\ sessions[s].token = token}

\* rows of SELECT ... FROM sessions WHERE userId = ? AND token = ? AND isActive = 1
ActiveSessionRows(userId, token) ==
    {s \in SessionIds : /\ sessions[s].userId = userId
                        /\ sessions[s].token = token
                        /\ sessions[s].isActive}

\* variant of SessionExpired: the expiry of the session is not looked at
SessionExpired_Never(session, t) == FALSE

\* if (new Date() > session.expiresAt)
SessionExpired(session, t) == t > session.expiresAt

\* sessions[0] of the result: without ORDER BY any matching row may come first
AuthSelectSession(p) ==
    /\ pc[p] = "auth_session"
    /\ LET rows == ActiveSessionRows(loc[p].uid, loc[p].token)
       IN IF rows = {}
          THEN Done(p, loc[p], "SessionNotFound")
          ELSE \E s \in rows :
                  /\ SetLoc(p, [loc[p] EXCEPT !.sid = s])
                  /\ IF SessionExpired(sessions[s], now)
                     THEN Goto(p, "auth_expire")
                     ELSE Goto(p, "auth_touch")
    /\ UNCHANGED <<streak, now, users, sessions, audit>>

\* UPDATE sessions SET isActive = 0 WHERE id = ?, then 401 'Session expired'
AuthExpire(p) ==
    /\ pc[p] = "auth_expire"
    /\ sessions' = [sessions EXCEPT ![loc[p].sid].isActive = FALSE]
    /\ Done(p, loc[p], "SessionExpired")
    /\ UNCHANGED <<streak, now, users, audit>>

\* variant of AuthTouch: the touch flags the session active as well
AuthTouch_Reactivate(p) ==
    /\ pc[p] = "auth_touch"
    /\ sessions' = [sessions EXCEPT ![loc[p].sid].lastActivity = now,
                                    ![loc[p].sid].isActive = TRUE]
    /\ Done(p, loc[p], "ok")
    /\ UNCHANGED <<streak, now, users, audit>>

\* UPDATE sessions SET lastActivity = NOW() WHERE id = ?, then next()
AuthTouch(p) ==
    /\ pc[p] = "auth_touch"
    /\ sessions' = [sessions EXCEPT ![loc[p].sid].lastActivity = now]
    /\ Done(p, loc[p], "ok")
    /\ UNCHANGED <<streak, now, users, audit>>

\* the bearer tokens a client can present: none, or one that was issued
IssuedTokens == {sessions[s].token : s \in SessionIds}

Authenticate(p) ==
    \/ \E token \in IssuedTokens \cup {NoToken} : AuthStart(p, token)
    \/ AuthSelectSession(p)
    \/ AuthExpire(p)
    \/ AuthTouch(p)

(***************************************************************************)
(* AuthController.refreshToken.  The controller calls                     *)
(* this.authService.refreshToken(refreshToken); the AuthService class     *)
(* defines login, register, logout, generateTokens, createSession,        *)
(* handleFailedLogin, resetFailedAttempts, logFailedAttempt,              *)
(* logSuccessfulLogin and logUserAction and no refreshToken, so the call  *)
(* throws a TypeError inside the try block and the catch answers 401      *)
(* 'Invalid refresh token'.                                               *)
(***************************************************************************)
\* the refresh tokens a client can present: none, or one that was issued
\* together with the access token of a session
IssuedRefreshTokens ==
    {RefreshToken(sessions[s].userId, sessions[s].createdAt) : s \in SessionIds}

RefreshTokenRequest(p, refreshToken) ==
    /\ pc[p] = "idle"
    /\ Done(p, [NoLoc EXCEPT !.op = "refresh", !.token = refreshToken],
            IF refreshToken = NoToken THEN "TokenRequired" ELSE "InvalidToken")
    /\ UNCHANGED <<streak, now, users, sessions, audit>>

(***************************************************************************)
(* SessionController.extendSession / SessionService.extendSession         *)
(***************************************************************************)
\* parseInt(hours) || 24
ExtensionHours(hours) == IF hours = 0 THEN DEFAULT_EXTENSION ELSE hours

\* variant of ExceedsMaxExtension: the controller refuses nothing
ExceedsMaxExtension_Never(extensionHours) == FALSE
\* if (extensionHours > 168): more than one week is refused
ExceedsMaxExtension(extensionHours) == extensionHours > MAX_EXTENSION

\* UPDATE sessions SET expiresAt = ? WHERE id = ? AND isActive = 1, unless
\* the controller refuses more than one week.  userId is req.user.id, which
\* the controller writes to the log only; sessionId is req.cookies.sessionId.
ExtendSessionBy(p, userId, sessionId, hours) ==
    /\ pc[p] = "idle"
    /\ LET l == [NoLoc EXCEPT !.op = "extend", !.uid = userId, !.sid = sessionId,
                               !.count = ExtensionHours(hours)]
       IN IF ExceedsMaxExtension(ExtensionHours(hours))
          THEN /\ Done(p, l, "TooLong")
               /\ UNCHANGED sessions
          ELSE /\ sessions' = [s \in SessionIds |->
                                  IF s = sessionId /\ sessions[s].isActive
                                  THEN [sessions[s] EXCEPT
                                          !.expiresAt = now + Hours(ExtensionHours(hours))]
                                  ELSE sessions[s]]
               /\ Done(p, l, "ok")
    /\ UNCHANGED <<streak, now, users, audit>>

\* the extension request of a caller that is not recorded
ExtendSession(p, sessionId, hours) == ExtendSessionBy(p, 0, sessionId, hours)

(***************************************************************************)
(* UserService.lockUser / unlockUser / deleteUser (administration)        *)
(***************************************************************************)
LockUser(userId) ==
    /\ userId \in UserIds
    /\ users' = [users EXCEPT ![userId].status = "locked",
                              ![userId].lockedUntil = now + Hours(ADMIN_LOCK_TIME)]
    /\ UNCHANGED <<streak, now, sessions, audit, pc, loc>>

UnlockUser(userId) ==
    /\ userId \in UserIds
    /\ users' = [users EXCEPT ![userId].status = "active",
                              ![userId].lockedUntil = NULL,
                              ![userId].failedAttempts = 0]
    /\ streak' = [streak EXCEPT ![users[userId].nationalId] = 0]
    /\ UNCHANGED <<now, sessions, audit, pc, loc>>

DeleteUser(id) ==
    /\ id \in UserIds
    /\ users' = [users EXCEPT ![id].status = "inactive"]
    /\ UNCHANGED <<streak, now, sessions, audit, pc, loc>>

(***************************************************************************)
(* UserService.changePassword                                             *)
(***************************************************************************)
\* SELECT id, password FROM users WHERE id = ?, verifyPassword of the current
\* password, isStrongPassword of the new one
ChangePasswordSelect(p, userId, currentPassword, newPassword) ==
    /\ pc[p] = "idle"
    /\ userId \in UserIds
    /\ LET l == [NoLoc EXCEPT !.op = "changePassword", !.uid = userId,
                               !.cur = currentPassword, !.pw = newPassword]
       IN IF ~verifyPassword(currentPassword, users[userId].password)
          THEN Done(p, l, "CurrentPasswordIncorrect")
          ELSE IF ~isStrongPassword(newPassword)
          THEN Done(p, l, "WeakPassword")
          ELSE Goto(p, "chpw_update") /\ SetLoc(p, l)
    /\ UNCHANGED <<streak, now, users, sessions, audit>>

\* hashPassword, UPDATE users SET password = ? WHERE id = ?, return true
ChangePasswordUpdate(p) ==
    /\ pc[p] = "chpw_update"
    /\ users' = [users EXCEPT ![loc[p].uid].password = hashPassword(loc[p].pw)]
    /\ Done(p, loc[p], "ok")
    /\ UNCHANGED <<streak, now, sessions, audit>>

(***************************************************************************)
(* UserService.deleteAccount: the caller deletes the own account          *)
(***************************************************************************)
\* SELECT id, password FROM users WHERE id = ?, then verifyPassword
DeleteAccountSelect(p, userId, password) ==
    /\ pc[p] = "idle"
    /\ userId \in UserIds
    /\ LET l == [NoLoc EXCEPT !.op = "deleteAccount", !.uid = userId, !.pw = password]
       IN IF ~verifyPassword(password, users[userId].password)
          THEN Done(p, l, "PasswordIncorrect")
          ELSE Goto(p, "delacct_update") /\ SetLoc(p, l)
    /\ UNCHANGED <<streak, now, users, sessions, audit>>

\* UPDATE users SET status = 'inactive' WHERE id = ?
DeleteAccountUpdate(p) ==
    /\ pc[p] = "delacct_update"
    /\ users' = [users EXCEPT ![loc[p].uid].status = "inactive"]
    /\ Goto(p, "delacct_terminate")
    /\ UNCHANGED <<streak, now, sessions, audit, loc>>

\* this.terminateAllSessions(userId), then return true
DeleteAccountTerminate(p) ==
    /\ pc[p] = "delacct_terminate"
    /\ sessions' = TerminateRows(TerminatedRows(loc[p].uid, 0))
    /\ Done(p, loc[p], "ok")
    /\ UNCHANGED <<streak, now, users, audit>>

(***************************************************************************)
(* SessionService.cleanupExpiredSessions (the sweep)                      *)
(***************************************************************************)
\* variant of SweptSessions: the sweep removes the expired rows
SweptSessions_Removed ==
    SelectSeq(sessions, LAMBDA r : ~(r.expiresAt < now /\ r.isActive))

\* variant of SweepMatches: the sweep takes every active session
SweepMatches_EveryActive(session, t) == session.isActive

\* WHERE expiresAt < NOW() AND isActive = 1
SweepMatches(session, t) == session.expiresAt < t /\ session.isActive

\* UPDATE sessions SET isActive = 0 WHERE expiresAt < NOW() AND isActive = 1
SweptSessions ==
    [s \in SessionIds |->
        IF SweepMatches(sessions[s], now)
        THEN [sessions[s] EXCEPT !.isActive = FALSE]
        ELSE sessions[s]]

cleanupExpiredSessions ==
    /\ sessions' = SweptSessions
    /\ UNCHANGED <<streak, now, users, audit, pc, loc>>

(***************************************************************************)
(* Failure of the audit INSERT (db.query rejects).  logFailedAttempt and  *)
(* logUserAction have no catch of their own and login, register and      *)
(* logout rethrow: the request ends with the database error, after the    *)
(* statements it has already run.                                         *)
(***************************************************************************)
AuditLabels == {"login_log", "hfl_log", "login_audit", "reg_audit", "logout_audit"}

AuditInsertFails(p) ==
    /\ pc[p] \in AuditLabels
    /\ Done(p, loc[p], "DbError")
    /\ UNCHANGED <<streak, now, users, sessions, audit>>

(***************************************************************************)
(* login is interrupted after createSession: the UPDATE of lastLogin or   *)
(* the audit INSERT rejects, or the caller has gone when the response is  *)
(* sent.  There is no transaction: the statements already run stay.       *)
(***************************************************************************)
LoginInterrupted(p) ==
    /\ pc[p] \in {"login_lastlogin", "login_audit"}
    /\ Done(p, loc[p], "Interrupted")
    /\ UNCHANGED <<streak, now, users, sessions, audit>>

(***************************************************************************)
(* AuthController.forgotPassword.  The controller awaits                  *)
(* this.authService.forgotPassword(email); AuthService defines no such    *)
(* method, so the call throws a TypeError inside the try block, whatever  *)
(* the email, and the catch sends the response.                           *)
(***************************************************************************)
\* the outcome of the call of the service
forgotPasswordCall(email) == "TypeError"

\* variant of ForgotPasswordResponse: the catch reports the failure
ForgotPasswordResponse_Reported(outcome) ==
    IF outcome = "ok" THEN "ResetSent" ELSE "ResetFailed"

\* res.json({success: true, message: 'Password reset instructions sent to
\* your email'}) after the call, and the same in the catch
ForgotPasswordResponse(outcome) ==
    IF outcome = "ok" THEN "ResetSent" ELSE "ResetSent"

ForgotPassword(p, email) ==
    /\ pc[p] = "idle"
    /\ LET l == [NoLoc EXCEPT !.op = "forgotPassword", !.email = email]
       IN IF email = ""
          THEN Done(p, l, "EmailRequired")
          ELSE Done(p, l, ForgotPasswordResponse(forgotPasswordCall(email)))
    /\ UNCHANGED <<streak, now, users, sessions, audit>>

(***************************************************************************)
(* The responses of routes/auth.js, mounted on /api/auth: success is      *)
(* answered by res.json (login) and res.status(201) (register), every     *)
(* error the service throws is answered by the one status of the catch.   *)
(***************************************************************************)
\* router.post('/login')
LoginRouteStatus(res) == IF res = "ok" THEN 200 ELSE 401

\* router.post('/register')
RegisterRouteStatus(res) == IF res = "ok" THEN 201 ELSE 400

\* the status of the response to a request that has ended with res
RouteStatus(op, res) ==
    IF op = "login" THEN LoginRouteStatus(res) ELSE RegisterRouteStatus(res)

(***************************************************************************)
(* Clock                                                                  *)
(***************************************************************************)
\* a tick is far longer than a request: the clock advances between requests
Quiet == \A p \in Procs : pc[p] = "idle"

Tick ==
    /\ Quiet
    /\ now < MaxTime
    /\ now' = now + 1
    /\ UNCHANGED <<streak, users, sessions, audit, pc, loc>>

\* the response has been sent: the request slot is free again
Finish(p) ==
    /\ pc[p] = "done"
    /\ pc' = [pc EXCEPT ![p] = "idle"]
    /\ loc' = [loc EXCEPT ![p] = NoLoc]
    /\ UNCHANGED <<streak, now, users, sessions, audit>>

\* the hours a client asks for: a negative number, more than one week
ExtensionRequests == {-1, 169}

\* the hours a client asks for: a negative number, none (the default)
ExtensionBackAndForth == {-1, 0}

\* the hours a client asks for: none (the default), the cap, more than the cap
ExtensionBoundary == {0, 168, 169}

\* login with a wrong password for the seeded test user
FailedLogin(p) ==
    \/ LoginSelect(p, JohnNid, PwWeak)
    \/ LoginLogFailure(p)
    \/ HflIncrement(p)
    \/ HflSelect(p)
    \/ HflLock(p)
    \/ HflLog(p)

\* the credentials of the seeded accounts
SeedCredentials == {<<JohnNid, PwTest>>, <<AdminNid, PwAdmin>>}

\* the credentials of the seeded test user
JohnCredentials == {<<JohnNid, PwTest>>}

\* login with the given valid credentials
SessionLogin(p, credentials) ==
    \/ \E c \in credentials : LoginSelect(p, c[1], c[2])
    \/ LoginLogFailure(p)
    \/ LoginReset(p)
    \/ LoginSession(p)
    \/ LoginLastLogin(p)
    \/ LoginAudit(p)

\* login of the seeded test user with the right password
ValidLogin(p) ==
    \/ LoginSelect(p, JohnNid, PwTest)
    \/ LoginReset(p)
    \/ LoginSession(p)
    \/ LoginLastLogin(p)
    \/ LoginAudit(p)

\* the update requests of the profile and administration endpoints
Updates ==
    {[email |-> e, role |-> Undefined, status |-> Undefined] : e \in Emails}

(***************************************************************************)
(* Specifications.  Each runs the requests of one part of the service.    *)
(* SpecRegister serves two requests at a time, interleaved at every       *)
(* await; the other specifications serve one request at a time (slot p1), *)
(* interleaved at every await with the administration statements.  The    *)
(* store executes every statement, except in SpecAuditFault, where the    *)
(* INSERT into audit_logs may fail.                                       *)
(***************************************************************************)
OneSlot == {"p1"}

\* the slot of the second request of a race
OtherSlot == Procs \ OneSlot

\* the accounts the administration requests act on: every row but the
\* seeded administrator
ManagedUsers == UserIds \ {1}

\* an account is deleted with the right or with a wrong password
DeleteAccount(p) ==
    \/ \E userId \in ManagedUsers, password \in {PwTest, PwWeak} :
            DeleteAccountSelect(p, userId, password)
    \/ DeleteAccountUpdate(p)
    \/ DeleteAccountTerminate(p)

\* the own password is changed, with the right or a wrong current password
ChangePassword(p) ==
    \/ \E userId \in ManagedUsers, currentPassword \in Passwords,
          newPassword \in NewPasswords :
            ChangePasswordSelect(p, userId, currentPassword, newPassword)
    \/ ChangePasswordUpdate(p)

\* registration with a new password of every kind
PolicyRegister(p) ==
    \/ \E nationalId \in NationalIds, email \in Emails, password \in NewPasswords :
            RegisterSelect(p, nationalId, email, password, "citizen")
    \/ RegisterInsert(p)
    \/ RegisterSession(p)
    \/ RegisterAudit(p)

\* a request with any bearer token: none, an access token that was issued,
\* or a token that JWT_SECRET has not signed (a refresh token that was issued)
PresentToken(p) ==
    \/ \E token \in IssuedTokens \cup IssuedRefreshTokens \cup {NoToken} : AuthStart(p, token)
    \/ AuthSelectSession(p)
    \/ AuthExpire(p)
    \/ AuthTouch(p)

\* the bodies a caller sends to the profile endpoint: one field each
ProfileBodies ==
    {[email |-> e, role |-> Undefined, status |-> Undefined] : e \in Emails}
    \cup {[email |-> Undefined, role |-> r, status |-> Undefined] : r \in Roles}
    \cup {[email |-> Undefined, role |-> Undefined, status |-> st] : st \in Statuses}

\* the users that pass authenticateToken with one of the issued tokens
AuthenticatedUsers ==
    {u \in UserIds :
        \E s \in SessionIds :
            /\ sessions[s].userId = u
            /\ AuthCheck(sessions[s].token, now) = "ok"
            /\ sessions[s].isActive
            /\ ~SessionExpired(sessions[s], now)}

\* login, lockout and the administrative lock operations
NextLogin ==
    \/ Tick
    \/ \E p \in OneSlot : Login(p)
    \/ \E userId \in ManagedUsers : LockUser(userId)
    \/ \E userId \in ManagedUsers : UnlockUser(userId)
    \/ \E id \in ManagedUsers : DeleteUser(id)
    \/ \E p \in OneSlot : Finish(p)

SpecLogin == Init /\ [][NextLogin]_vars

\* registration, user creation and profile update
NextRegister ==
    \/ Tick
    \/ \E p \in Procs : Register(p)
    \/ \E p \in Procs : CreateUser(p)
    \/ \E p \in Procs, id \in UserIds, updates \in Updates : UpdateUser(p, id, updates)
    \/ \E p \in Procs : Finish(p)

SpecRegister == Init /\ [][NextRegister]_vars

\* request authentication against the sessions created by login
NextAuth ==
    \/ Tick
    \/ \E p \in OneSlot : SessionLogin(p, JohnCredentials)
    \/ \E p \in OneSlot : Authenticate(p)
    \/ \E p \in OneSlot, sessionId \in SessionIds, hours \in ExtensionRequests :
            ExtendSession(p, sessionId, hours)
    \/ \E id \in ManagedUsers : DeleteUser(id)
    \/ \E p \in OneSlot : Finish(p)

SpecAuth == Init /\ [][NextAuth]_vars

\* login over a store whose audit INSERT may fail
NextAuditFault ==
    \/ Tick
    \/ \E p \in OneSlot : SessionLogin(p, JohnCredentials)
    \/ \E p \in OneSlot : AuditInsertFails(p)
    \/ \E id \in ManagedUsers : DeleteUser(id)
    \/ \E p \in OneSlot : Finish(p)

SpecAuditFault == Init /\ [][NextAuditFault]_vars

\* concurrent logins with a wrong password for one user
NextLoginRace ==
    \/ Tick
    \/ \E p \in Procs : FailedLogin(p)
    \/ \E p \in Procs : Finish(p)

SpecLoginRace == Init /\ [][NextLoginRace]_vars

\* request authentication and login after a termination or an unlock
NextEffect ==
    \/ Tick
    \/ \E p \in OneSlot : SessionLogin(p, JohnCredentials)
    \/ \E p \in OneSlot : Authenticate(p)
    \/ \E p \in OneSlot, userId \in UserIds, sessionId \in SessionIds :
            TerminateSession(p, userId, sessionId)
    \/ \E p \in OneSlot, sessionId \in SessionIds, hours \in ExtensionRequests :
            ExtendSession(p, sessionId, hours)
    \/ \E userId \in ManagedUsers : LockUser(userId)
    \/ \E userId \in ManagedUsers : UnlockUser(userId)
    \/ \E p \in OneSlot : Finish(p)

SpecEffect == Init /\ [][NextEffect]_vars

\* token refresh with the refresh tokens issued by login
NextRefresh ==
    \/ Tick
    \/ \E p \in OneSlot : SessionLogin(p, JohnCredentials)
    \/ \E p \in OneSlot, refreshToken \in IssuedRefreshTokens \cup {NoToken} :
            RefreshTokenRequest(p, refreshToken)
    \/ \E id \in ManagedUsers : DeleteUser(id)
    \/ \E p \in OneSlot : Finish(p)

SpecRefresh == Init /\ [][NextRefresh]_vars

\* extension of the sessions created by login
NextExtend ==
    \/ Tick
    \/ \E p \in OneSlot : SessionLogin(p, JohnCredentials)
    \/ \E p \in OneSlot, sessionId \in SessionIds, hours \in ExtensionBoundary :
            ExtendSession(p, sessionId, hours)
    \/ \E id \in ManagedUsers : DeleteUser(id)
    \/ \E p \in OneSlot : Finish(p)

SpecExtend == Init /\ [][NextExtend]_vars

\* logout and termination of one session created by login
NextLogout ==
    \/ Tick
    \/ \E p \in OneSlot : SessionLogin(p, JohnCredentials)
    \/ \E p \in OneSlot : Logout(p)
    \/ \E p \in OneSlot, userId \in UserIds, sessionId \in SessionIds :
            TerminateSession(p, userId, sessionId)
    \/ \E id \in ManagedUsers : DeleteUser(id)
    \/ \E p \in OneSlot : Finish(p)

SpecLogout == Init /\ [][NextLogout]_vars

\* termination of the sessions created by login
NextTerminate ==
    \/ Tick
    \/ \E p \in OneSlot : SessionLogin(p, SeedCredentials)
    \/ \E p \in OneSlot : TerminateAll(p)
    \/ \E id \in ManagedUsers : DeleteUser(id)
    \/ \E p \in OneSlot : Finish(p)

SpecTerminate == Init /\ [][NextTerminate]_vars

\* logins that may be interrupted after the session row
NextInterrupt ==
    \/ Tick
    \/ \E p \in OneSlot : ValidLogin(p)
    \/ \E p \in OneSlot : LoginInterrupted(p)
    \/ \E p \in OneSlot : Finish(p)

SpecInterrupt == Init /\ [][NextInterrupt]_vars

\* the operations that retire users and sessions, at one instant: a session
\* is past its expiry after an extension by a negative number of hours
NextDelete ==
    \/ \E p \in OneSlot : SessionLogin(p, JohnCredentials)
    \/ \E p \in OneSlot : Authenticate(p)
    \/ \E p \in OneSlot, sessionId \in SessionIds, hours \in ExtensionRequests :
            ExtendSession(p, sessionId, hours)
    \/ \E p \in OneSlot : Logout(p)
    \/ \E id \in ManagedUsers : DeleteUser(id)
    \/ \E p \in OneSlot : DeleteAccount(p)
    \/ cleanupExpiredSessions
    \/ \E p \in OneSlot : Finish(p)

SpecDelete == Init /\ [][NextDelete]_vars

\* password-reset requests while the emails of the accounts change
NextForgot ==
    \/ Tick
    \/ \E p \in Procs, id \in UserIds, updates \in Updates : UpdateUser(p, id, updates)
    \/ \E p \in Procs, email \in Emails \cup {""} : ForgotPassword(p, email)
    \/ \E p \in Procs : Finish(p)

SpecForgot == Init /\ [][NextForgot]_vars

\* the operations that set a password
NextPassword ==
    \/ Tick
    \/ \E p \in OneSlot : PolicyRegister(p)
    \/ \E p \in OneSlot : ChangePassword(p)
    \/ \E p \in OneSlot : Finish(p)

SpecPassword == Init /\ [][NextPassword]_vars

\* request authentication with good and bad bearer tokens
NextToken ==
    \/ Tick
    \/ \E p \in OneSlot : SessionLogin(p, JohnCredentials)
    \/ \E p \in OneSlot : PresentToken(p)
    \/ \E p \in OneSlot, sessionId \in SessionIds, hours \in ExtensionRequests :
            ExtendSession(p, sessionId, hours)
    \/ \E id \in ManagedUsers : DeleteUser(id)
    \/ \E p \in OneSlot : Finish(p)

SpecToken == Init /\ [][NextToken]_vars

\* the expiry sweep over the sessions created by login
NextSweep ==
    \/ Tick
    \/ \E p \in OneSlot : SessionLogin(p, JohnCredentials)
    \/ \E p \in OneSlot, sessionId \in SessionIds, hours \in ExtensionRequests :
            ExtendSession(p, sessionId, hours)
    \/ cleanupExpiredSessions
    \/ \E id \in ManagedUsers : DeleteUser(id)
    \/ \E p \in OneSlot : Finish(p)

SpecSweep == Init /\ [][NextSweep]_vars

\* two requests at a time on the sessions created by login, at one instant:
\* login and request authentication in one slot; extension and logout (the
\* UPDATE of logout is the UPDATE of terminateSession) in the other; and the
\* sweep
NextSessionRace ==
    \/ \E p \in OneSlot : ValidLogin(p)
    \/ \E p \in OneSlot : Authenticate(p)
    \/ \E p \in OtherSlot, sessionId \in SessionIds, hours \in ExtensionRequests :
            ExtendSession(p, sessionId, hours)
    \/ \E p \in OtherSlot : Logout(p)
    \/ cleanupExpiredSessions
    \/ \E p \in Procs : Finish(p)

SpecSessionRace == Init /\ [][NextSessionRace]_vars

\* request authentication and extensions that end and prolong a session
NextResume ==
    \/ Tick
    \/ \E p \in OneSlot : SessionLogin(p, JohnCredentials)
    \/ \E p \in OneSlot : Authenticate(p)
    \/ \E p \in OneSlot, sessionId \in SessionIds, hours \in ExtensionBackAndForth :
            ExtendSession(p, sessionId, hours)
    \/ \E id \in ManagedUsers : DeleteUser(id)
    \/ \E p \in OneSlot : Finish(p)

SpecResume == Init /\ [][NextResume]_vars

\* the requests of an authenticated citizen on the own account
NextProfile ==
    \/ Tick
    \/ \E p \in OneSlot, userId \in ManagedUsers, body \in ProfileBodies :
            UpdateProfile(p, userId, body)
    \/ \E p \in OneSlot : ChangePassword(p)
    \/ \E p \in OneSlot : DeleteAccount(p)
    \/ \E p \in OneSlot : Finish(p)

SpecProfile == Init /\ [][NextProfile]_vars

\* login and request authentication while the administration locks,
\* unlocks and soft-deletes the user, at one instant; the sessions stay as
\* they are
NextStatus ==
    \/ \E p \in OneSlot : SessionLogin(p, JohnCredentials)
    \/ \E p \in OneSlot : Authenticate(p)
    \/ \E p \in OneSlot, sessionId \in SessionIds, hours \in ExtensionRequests :
            ExtendSession(p, sessionId, hours)
    \/ \E userId \in ManagedUsers : LockUser(userId)
    \/ \E userId \in ManagedUsers : UnlockUser(userId)
    \/ \E id \in ManagedUsers : DeleteUser(id)
    \/ \E p \in OneSlot : Finish(p)

SpecStatus == Init /\ [][NextStatus]_vars

\* logins of one user with a wrong password in one slot and with the right
\* password in the other, interleaved at every await
NextResetRace ==
    \/ \E p \in OneSlot : FailedLogin(p)
    \/ \E p \in OtherSlot : ValidLogin(p)
    \/ \E p \in Procs : Finish(p)

SpecResetRace == Init /\ [][NextResetRace]_vars

\* extension requests of the authenticated users with any session id in the
\* cookie
NextOwner ==
    \/ Tick
    \/ \E p \in OneSlot : SessionLogin(p, SeedCredentials)
    \/ \E p \in OneSlot, userId \in AuthenticatedUsers, sessionId \in SessionIds,
            hours \in ExtensionRequests :
            ExtendSessionBy(p, userId, sessionId, hours)
    \/ \E id \in ManagedUsers : DeleteUser(id)
    \/ \E p \in OneSlot : Finish(p)

SpecOwner == Init /\ [][NextOwner]_vars

\* logout requests at the endpoint with the tokens and session cookies of
\* the logins
NextLogoutRoute ==
    \/ Tick
    \/ \E p \in OneSlot : SessionLogin(p, JohnCredentials)
    \/ \E p \in OneSlot, token \in IssuedTokens \cup {NoToken},
            sessionId \in SessionIds \cup {0} : LogoutRoute(p, token, sessionId)
    \/ \E id \in ManagedUsers : DeleteUser(id)
    \/ \E p \in OneSlot : Finish(p)

SpecLogoutRoute == Init /\ [][NextLogoutRoute]_vars

(***************************************************************************)
(* Properties                                                             *)
(***************************************************************************)

\* C1: after N = MAX_LOGIN_ATTEMPTS consecutive login attempts with a wrong
\* password (no successful login or unlock in between) the user's status
\* is locked and lockedUntil is later than the current time.  Stated at the
\* return of the attempt that completes the streak.
C1_LockedAfterThreshold ==
    \A p \in Procs :
        ( /\ pc[p] = "done"
          /\ loc[p].op = "login"
          /\ loc[p].res = "InvalidCredentials"
          /\ loc[p].uid # 0
          /\ streak[loc[p].nid] = MAX_LOGIN_ATTEMPTS )
        => ( /\ users[loc[p].uid].status = "locked"
             /\ users[loc[p].uid].lockedUntil # NULL
             /\ users[loc[p].uid].lockedUntil > now )

\* C2: a login attempt that finds lockedUntil set and in the future fails
\* with AccountLocked whatever the password: it goes straight to the audit
\* entry and the throw, and changes neither failedAttempts nor lockedUntil.
C2_LockedLoginRejected ==
    [][\A p \in Procs :
        /\ ( ( /\ pc[p] = "idle"
               /\ loc'[p].op = "login"
               /\ loc'[p].uid # 0
               /\ IsLocked(users[loc'[p].uid], now) )
             => (pc'[p] = "login_log" /\ loc'[p].res = "AccountLocked") )
        /\ ( ( /\ pc[p] = "login_log"
               /\ loc[p].res = "AccountLocked"
               /\ pc'[p] # "login_log" )
             => (pc'[p] = "done" /\ loc'[p].res = "AccountLocked" /\ users' = users) )
    ]_vars

\* a login with the correct password has been rejected as locked
C2_Witness ==
    \E p \in Procs :
        /\ pc[p] = "done"
        /\ loc[p].op = "login"
        /\ loc[p].res = "AccountLocked"
        /\ loc[p].uid # 0
        /\ verifyPassword(loc[p].pw, users[loc[p].uid].password)
        /\ IsLocked(users[loc[p].uid], now)

C5_OneSessionPerToken ==
    \A s1, s2 \in SessionIds :
        (sessions[s1].userId = sessions[s2].userId /\ sessions[s1].token = sessions[s2].token)
        => s1 = s2

\* C6: a registration whose existence check finds a user with the same
\* identity number or the same email is rejected with DuplicateAccount, and
\* a rejected registration is rejected before its first write: it changes
\* neither users nor sessions and holds no user id, session id or token.
C6_DuplicateRejected ==
    [][\A p \in Procs :
        /\ ( ( /\ pc[p] = "idle"
               /\ loc'[p].op = "register"
               /\ \E u \in UserIds : \/ users[u].nationalId = loc'[p].nid
                                     \/ users[u].email = loc'[p].email )
             => (pc'[p] = "done" /\ loc'[p].res = "DuplicateAccount") )
        /\ ( ( /\ pc[p] # "done"
               /\ pc'[p] = "done"
               /\ loc'[p].op = "register"
               /\ loc'[p].res # "ok" )
             => ( /\ pc[p] \in {"idle", "reg_insert"}
                  /\ users' = users
                  /\ sessions' = sessions
                  /\ audit' = audit
                  /\ loc'[p].uid = 0
                  /\ loc'[p].sid = 0
                  /\ loc'[p].token = NoToken ) )
    ]_vars

\* a registration with a new identity number and the email of an existing
\* user has been rejected with DuplicateAccount
C6_Witness ==
    \E p \in Procs :
        /\ pc[p] = "done"
        /\ loc[p].op = "register"
        /\ loc[p].res = "DuplicateAccount"
        /\ \A u \in UserIds : users[u].nationalId # loc[p].nid
        /\ \E u \in UserIds : users[u].email = loc[p].email

\* C7: in every reachable state, under every interleaving of registrations,
\* user creations and profile updates, no two user rows share an identity
\* number and no two user rows share an email.
C7_UniqueIdentity ==
    \A u1, u2 \in UserIds :
        u1 # u2 => ( /\ users[u1].nationalId # users[u2].nationalId
                     /\ users[u1].email # users[u2].email )

\* two requests have raced: one is past its existence check and about to
\* insert a row whose identity number or email another request has stored
\* in the meantime
C7_Witness ==
    \E p \in Procs :
        /\ pc[p] \in {"reg_insert", "cu_insert"}
        /\ \E u \in UserIds : \/ users[u].nationalId = loc[p].nid
                              \/ users[u].email = loc[p].email

\* C8: a successful register inserts exactly one user row, with role
\* citizen and status active whatever role the registration data carries,
\* then one active session holding the returned access token, then the
\* USER_REGISTERED audit entry, and returns only after these three writes.
C8_RegisterPersists ==
    [][\A p \in Procs :
        /\ ( (pc[p] = "reg_insert" /\ pc'[p] = "reg_session")
             => /\ Len(users') = Len(users) + 1
                /\ \A u \in UserIds : users'[u] = users[u]
                /\ loc'[p].uid = Len(users')
                /\ users'[loc'[p].uid].nationalId = loc[p].nid
                /\ users'[loc'[p].uid].email = loc[p].email
                /\ users'[loc'[p].uid].role = "citizen"
                /\ users'[loc'[p].uid].status = "active"
                /\ sessions' = sessions )
        /\ ( (pc[p] = "reg_session" /\ pc'[p] # "reg_session")
             => /\ pc'[p] = "reg_audit"
                /\ Len(sessions') = Len(sessions) + 1
                /\ \A s \in SessionIds : sessions'[s] = sessions[s]
                /\ loc'[p].sid = Len(sessions')
                /\ sessions'[loc'[p].sid].userId = loc[p].uid
                /\ sessions'[loc'[p].sid].token = loc'[p].token
                /\ sessions'[loc'[p].sid].isActive
                /\ loc'[p].token.type = "access"
                /\ loc'[p].token.id = loc[p].uid
                /\ loc'[p].token.role = "citizen"
                /\ users' = users )
        /\ ( (pc[p] = "reg_audit" /\ pc'[p] # "reg_audit")
             => /\ pc'[p] = "done"
                /\ loc'[p].res = "ok"
                /\ loc'[p].token = loc[p].token
                /\ loc'[p].uid = loc[p].uid
                /\ loc'[p].sid = loc[p].sid
                /\ audit' = Append(audit, [userId |-> loc[p].uid,
                                           action |-> "USER_REGISTERED", detail |-> <<>>])
                /\ users' = users
                /\ sessions' = sessions )
        /\ ( ( /\ pc[p] # "done"
               /\ pc'[p] = "done"
               /\ loc'[p].op = "register"
               /\ loc'[p].res = "ok" )
             => pc[p] = "reg_audit" )
    ]_vars

\* a registration that asked for the role admin has returned successfully:
\* its user is an active citizen, its session is active and holds the
\* returned token, and its audit entry is in the log
C8_Witness ==
    \E p \in Procs :
        /\ pc[p] = "done"
        /\ loc[p].op = "register"
        /\ loc[p].res = "ok"
        /\ loc[p].role = "admin"
        /\ users[loc[p].uid].role = "citizen"
        /\ users[loc[p].uid].status = "active"
        /\ sessions[loc[p].sid].userId = loc[p].uid
        /\ sessions[loc[p].sid].token = loc[p].token
        /\ sessions[loc[p].sid].isActive
        /\ \E i \in 1..Len(audit) :
              audit[i].userId = loc[p].uid /\ audit[i].action = "USER_REGISTERED"

\* C9: logout marks the named session of the user inactive with
\* loggedOutAt = now, and a logout of a session that is already inactive
\* leaves every session record (loggedOutAt included) unchanged.
C9_LogoutIdempotent ==
    [][\A p \in Procs :
        (pc[p] = "idle" /\ loc'[p].op = "logout")
        => LET sid == loc'[p].sid
               uid == loc'[p].uid
           IN (sid \in SessionIds /\ sessions[sid].userId = uid)
              => /\ ~sessions'[sid].isActive
                 /\ sessions[sid].isActive => sessions'[sid].loggedOutAt = now
                 /\ ~sessions[sid].isActive => sessions' = sessions
    ]_vars

C11_OnlyOwnSession ==
    [][\A p \in Procs :
        (pc[p] = "idle" /\ loc'[p].op \in {"logout", "terminateSession"})
        => /\ Len(sessions') = Len(sessions)
           /\ \A s \in SessionIds :
                 (s # loc'[p].sid \/ sessions[s].userId # loc'[p].uid)
                 => sessions'[s] = sessions[s]
    ]_vars

\* a termination named an active session of another user and has
\* returned: the session is still active
C11_Witness ==
    \E p \in Procs :
        /\ pc[p] = "done"
        /\ loc[p].op = "terminateSession"
        /\ loc[p].sid \in SessionIds
        /\ sessions[loc[p].sid].userId # loc[p].uid
        /\ sessions[loc[p].sid].isActive
        /\ sessions[loc[p].sid].loggedOutAt = NULL

\* C12: an extension request for more than 168 hours is rejected and
\* changes no session; an accepted request changes at most the expiry of
\* the named session, to now + the hours asked for; no session expires
\* later than 168 hours from now.
C12_ExtensionCapped ==
    [][\A p \in Procs :
        (pc[p] = "idle" /\ loc'[p].op = "extend")
        => /\ pc'[p] = "done"
           /\ loc'[p].res = IF loc'[p].count > 168 THEN "TooLong" ELSE "ok"
           /\ loc'[p].res = "TooLong" => sessions' = sessions
           /\ Len(sessions') = Len(sessions)
           /\ \A s \in SessionIds :
                 /\ sessions'[s].expiresAt <= now + Hours(168)
                 /\ sessions'[s] = [sessions[s] EXCEPT !.expiresAt = sessions'[s].expiresAt]
                 /\ sessions'[s].expiresAt # sessions[s].expiresAt
                    => /\ s = loc'[p].sid
                       /\ sessions'[s].expiresAt = now + Hours(loc'[p].count)
    ]_vars

\* an extension by exactly 168 hours has been accepted
C12_Witness ==
    \E p \in Procs :
        /\ pc[p] = "done"
        /\ loc[p].op = "extend"
        /\ loc[p].res = "ok"
        /\ loc[p].count = 168
        /\ sessions[loc[p].sid].expiresAt = now + Hours(168)

\* C13: refreshToken, given a refresh token that was issued by this service
\* and has not expired, returns successfully and creates no session; given
\* any other token it fails with InvalidToken.  Stated at the return of
\* the request.
C13_RefreshReturnsAccessToken ==
    \A p \in Procs :
        (pc[p] = "done" /\ loc[p].op = "refresh" /\ loc[p].token # NoToken)
        => ( loc[p].res = IF loc[p].token.type = "refresh" /\ now < loc[p].token.exp
                          THEN "ok" ELSE "InvalidToken" )

\* C14: a failure of the audit insert does not fail the operation: a
\* login, registration or logout that has reached its audit entry returns
\* its normal outcome whether or not the insert succeeds, and the rows it
\* has written stay as they are.
C14_AuditFailureHarmless ==
    [][\A p \in Procs :
        (pc[p] \in {"login_audit", "reg_audit", "logout_audit"} /\ pc'[p] = "done")
        => /\ loc'[p].res = "ok"
           /\ users' = users
           /\ sessions' = sessions
    ]_vars

\* C15: a login attempt appends exactly one audit entry, at its return:
\* LOGIN_SUCCESS with the user's id when it succeeds, LOGIN_FAILED with a
\* null user id, the identity number and the reason when it fails (unknown
\* identity, locked, inactive, wrong password); for an unknown identity the
\* failure is InvalidCredentials.
C15_OneAuditEntryPerLogin ==
    [][\A p \in Procs :
        /\ ( (loc'[p].op = "login" /\ pc'[p] # "done") => audit' = audit )
        /\ ( ( /\ pc[p] = "idle"
               /\ loc'[p].op = "login"
               /\ \A u \in UserIds : users[u].nationalId # loc'[p].nid )
             => (loc'[p].uid = 0 /\ loc'[p].res = "InvalidCredentials") )
        /\ ( (pc[p] # "done" /\ pc'[p] = "done" /\ loc'[p].op = "login")
             => LET res == loc'[p].res
                    reason == IF loc'[p].uid = 0 THEN "User not found"
                              ELSE IF res = "AccountLocked" THEN "Account locked"
                              ELSE IF res = "AccountInactive" THEN "Account inactive"
                              ELSE "Invalid password"
                IN /\ res \in {"ok", "InvalidCredentials", "AccountLocked", "AccountInactive"}
                   /\ loc'[p].uid = 0 => res = "InvalidCredentials"
                   /\ audit' = Append(audit,
                         IF res = "ok"
                         THEN [userId |-> loc'[p].uid, action |-> "LOGIN_SUCCESS",
                               detail |-> <<>>]
                         ELSE [userId |-> NULL, action |-> "LOGIN_FAILED",
                               detail |-> <<loc'[p].nid, reason>>]) )
    ]_vars

\* a login for an unknown identity number has failed with
\* InvalidCredentials and its LOGIN_FAILED entry is the last of the log
C15_Witness ==
    \E p \in Procs :
        /\ pc[p] = "done"
        /\ loc[p].op = "login"
        /\ loc[p].uid = 0
        /\ loc[p].res = "InvalidCredentials"
        /\ Len(audit) > 0
        /\ audit[Len(audit)] = [userId |-> NULL, action |-> "LOGIN_FAILED",
                                detail |-> <<loc[p].nid, "User not found">>]

\* C16: a login that finds lockedUntil in the future is rejected as
\* locked; a login with the correct password that finds the lock lapsed
\* passes the checks and goes on to reset the lock state, whether the lock
\* came from failed attempts (status active) or from an administrator
\* (status locked, lockedUntil set).
C16_LapsedLockIsActive ==
    [][\A p \in Procs :
        (pc[p] = "idle" /\ loc'[p].op = "login" /\ loc'[p].uid # 0)
        => LET user == users[loc'[p].uid]
           IN /\ (user.lockedUntil # NULL /\ now < user.lockedUntil)
                 => (pc'[p] = "login_log" /\ loc'[p].res = "AccountLocked")
              /\ ( /\ user.status \in {"active", "locked"}
                   /\ user.lockedUntil # NULL
                   /\ now >= user.lockedUntil
                   /\ user.password = hashPassword(loc'[p].pw) )
                 => pc'[p] = "login_reset"
    ]_vars

\* C17: the lock set by failed attempts lasts LOCKOUT_TIME (30 minutes)
\* from the failure that set it; a login with the correct password that
\* finds this lock lapsed and the user active passes the checks, clears the
\* lock and the counter and returns successfully.
C17_LockoutLapses ==
    [][\A p \in Procs :
        /\ ( (pc[p] = "hfl_lock" /\ pc'[p] # "hfl_lock")
             => users'[loc[p].uid].lockedUntil = now + Minutes(30) )
        /\ ( ( /\ pc[p] = "idle"
               /\ loc'[p].op = "login"
               /\ loc'[p].uid # 0
               /\ users[loc'[p].uid].status = "active"
               /\ users[loc'[p].uid].lockedUntil # NULL
               /\ now >= users[loc'[p].uid].lockedUntil
               /\ users[loc'[p].uid].password = hashPassword(loc'[p].pw) )
             => pc'[p] = "login_reset" )
        /\ ( (pc[p] = "login_reset" /\ pc'[p] # "login_reset")
             => /\ pc'[p] = "login_session"
                /\ users'[loc[p].uid].lockedUntil = NULL
                /\ users'[loc[p].uid].failedAttempts = 0 )
        /\ ( (pc[p] = "login_session" /\ pc'[p] # "login_session")
             => pc'[p] = "login_lastlogin" )
        /\ ( (pc[p] = "login_lastlogin" /\ pc'[p] # "login_lastlogin")
             => pc'[p] = "login_audit" )
        /\ ( (pc[p] = "login_audit" /\ pc'[p] # "login_audit")
             => (pc'[p] = "done" /\ loc'[p].res = "ok") )
    ]_vars

\* a login with the correct password has passed the checks while the lock
\* set by the failed attempts, now lapsed, is still in the row
C17_Witness ==
    \E p \in Procs :
        /\ pc[p] = "login_reset"
        /\ users[loc[p].uid].status = "active"
        /\ users[loc[p].uid].failedAttempts >= MAX_LOGIN_ATTEMPTS
        /\ users[loc[p].uid].lockedUntil # NULL
        /\ now >= users[loc[p].uid].lockedUntil

\* C18: termination and unlocking take effect at the next check.  A
\* request whose token is the token of a terminated (inactive) session of
\* its user is rejected at the session lookup; unlockUser leaves the user
\* active, unlocked and with a counter of 0; the next login of such a user
\* with the correct password passes the checks and the next request of
\* such a user with a valid token reaches the session lookup.
C18_EffectiveAtOnce ==
    [][\A p \in Procs :
        /\ ( ( /\ pc[p] = "auth_session"
               /\ pc'[p] # "auth_session"
               /\ \E s \in SessionIds : /\ sessions[s].userId = loc[p].uid
                                        /\ sessions[s].token = loc[p].token
                                        /\ ~sessions[s].isActive
                                        /\ sessions[s].loggedOutAt # NULL )
             => (pc'[p] = "done" /\ loc'[p].res = "SessionNotFound") )
        /\ ( ( /\ pc[p] = "idle"
               /\ loc'[p].op = "login"
               /\ loc'[p].uid # 0
               /\ users[loc'[p].uid].status = "active"
               /\ users[loc'[p].uid].lockedUntil = NULL
               /\ users[loc'[p].uid].password = hashPassword(loc'[p].pw) )
             => pc'[p] = "login_reset" )
        /\ ( ( /\ pc[p] = "idle"
               /\ loc'[p].op = "auth"
               /\ loc'[p].token.type = "access"
               /\ now < loc'[p].token.exp
               /\ loc'[p].token.id \in UserIds
               /\ users[loc'[p].token.id].status = "active"
               /\ users[loc'[p].token.id].lockedUntil = NULL )
             => pc'[p] = "auth_session" )
    ]_vars

\* C19: under concurrent wrong-password logins no increment is lost: the
\* counter of a user equals the number of such attempts that have run their
\* increment (those recorded in the audit log and those between their
\* increment and their audit entry), and once the counter has reached the
\* threshold and no attempt is between its increment and its lock
\* statement, lockedUntil is set.
C19_NoLostIncrement ==
    \A u \in UserIds :
        LET recorded == {i \in 1..Len(audit) :
                            audit[i].detail = <<users[u].nationalId, "Invalid password">>}
            counted == {p \in Procs : /\ pc[p] \in {"hfl_select", "hfl_lock", "hfl_log"}
                                      /\ loc[p].uid = u}
            checking == {p \in Procs : /\ pc[p] \in {"hfl_select", "hfl_lock"}
                                       /\ loc[p].uid = u}
        IN /\ users[u].failedAttempts = Cardinality(recorded) + Cardinality(counted)
           /\ (users[u].failedAttempts >= MAX_LOGIN_ATTEMPTS /\ checking = {})
              => users[u].lockedUntil # NULL

\* two concurrent attempts with a wrong password have both returned: each
\* has read the counter at the threshold and the user is locked
C19_Witness ==
    /\ pc["p1"] = "done" /\ pc["p2"] = "done"
    /\ loc["p1"].op = "login" /\ loc["p2"].op = "login"
    /\ loc["p1"].uid # 0 /\ loc["p1"].uid = loc["p2"].uid
    /\ loc["p1"].res = "InvalidCredentials" /\ loc["p2"].res = "InvalidCredentials"
    /\ loc["p1"].count = MAX_LOGIN_ATTEMPTS /\ loc["p2"].count = MAX_LOGIN_ATTEMPTS
    /\ users[loc["p1"].uid].failedAttempts = MAX_LOGIN_ATTEMPTS
    /\ users[loc["p1"].uid].lockedUntil > now

\* C20: at most N = MAX_LOGIN_ATTEMPTS wrong passwords are evaluated
\* between two resets of the counter: a login is not taken to the password
\* verification (and on to handleFailedLogin) when the wrong passwords
\* already evaluated for its user, those counted in failedAttempts and
\* those about to be counted, number N or more, unless the lock has lapsed.
C20_AtMostNEvaluated ==
    [][\A p \in Procs :
        (pc[p] = "idle" /\ pc'[p] = "hfl_incr")
        => LET u == loc'[p].uid
               pending == {q \in Procs : pc[q] = "hfl_incr" /\ loc[q].uid = u}
           IN \/ users[u].failedAttempts + Cardinality(pending) < MAX_LOGIN_ATTEMPTS
              \/ (users[u].lockedUntil # NULL /\ now >= users[u].lockedUntil)
    ]_vars

\* C21: a login interrupted after its session row has been created leaves
\* a valid state: identity numbers and emails are unique, there is one
\* session row per (user, token) pair, a locked account has a lock time, the
\* created session is active and its token passes authentication, and a
\* retried login passes the checks of login.
C21_InterruptedLoginValid ==
    [][\A p \in Procs :
        (pc[p] \in {"login_lastlogin", "login_audit"} /\ pc'[p] = "done"
            /\ loc'[p].res = "Interrupted")
        => LET sid == loc[p].sid
               token == loc[p].token
               user == users'[loc[p].uid]
           IN /\ \A u, v \in 1..Len(users') :
                    (users'[u].nationalId = users'[v].nationalId
                        \/ users'[u].email = users'[v].email) => u = v
              /\ \A u \in 1..Len(users') :
                    /\ users'[u].failedAttempts >= 0
                    /\ users'[u].status = "locked" => users'[u].lockedUntil # NULL
              /\ \A s, t \in 1..Len(sessions') :
                    (sessions'[s].userId = sessions'[t].userId
                        /\ sessions'[s].token = sessions'[t].token) => s = t
              /\ AuthCheck(token, now)' = "ok"
              /\ sid \in ActiveSessionRows(loc[p].uid, token)'
              /\ ~SessionExpired(sessions'[sid], now')
              /\ LoginCheck(user, loc[p].pw, now').next = "login_reset"
    ]_vars

\* C22: no step removes a user row or a session row: the user ids and the
\* session ids never shrink and every row keeps its identity; a step that
\* makes a user inactive changes the status alone, and a step that retires a
\* session changes its active flag and its logout time alone.
C22_NoPhysicalDelete ==
    [][/\ Len(users') >= Len(users)
       /\ Len(sessions') >= Len(sessions)
       /\ \A u \in UserIds :
             /\ users'[u].nationalId = users[u].nationalId
             /\ (users[u].status # "inactive" /\ users'[u].status = "inactive")
                => users'[u] = [users[u] EXCEPT !.status = "inactive"]
       /\ \A s \in SessionIds :
             /\ sessions'[s].userId = sessions[s].userId
             /\ sessions'[s].token = sessions[s].token
             /\ sessions'[s].createdAt = sessions[s].createdAt
             /\ (sessions[s].isActive /\ ~sessions'[s].isActive)
                => sessions'[s] = [sessions[s] EXCEPT
                                      !.isActive = FALSE,
                                      !.loggedOutAt = sessions'[s].loggedOutAt]
    ]_vars

\* an account has been deleted, one of its sessions was swept or expired
\* and another one was terminated with the account
C22_Witness ==
    /\ users[2].status = "inactive"
    /\ \E s, t \in SessionIds :
          /\ ~sessions[s].isActive /\ sessions[s].loggedOutAt = NULL
          /\ ~sessions[t].isActive /\ sessions[t].loggedOutAt # NULL

\* C23: the audit log is append-only: no step removes an entry or changes
\* a field of an entry that has been written, and the number of entries
\* never decreases.
C23_AuditAppendOnly ==
    [][/\ Len(audit') >= Len(audit)
       /\ \A i \in 1..Len(audit) : audit'[i] = audit[i]
    ]_vars

\* a login, the logout of its session and one more entry have been recorded
C23_Witness ==
    /\ Len(audit) = MaxAudit
    /\ audit[1].action = "LOGIN_SUCCESS"
    /\ audit[2].action = "USER_LOGGED_OUT"

\* C24: each failure kind of login and registration is answered with its
\* own status: a locked account with 423, invalid credentials or an
\* inactive account with 401, a duplicate registration with 409, a weak
\* password with 400 and a storage failure with 503.
C24_StableStatus ==
    \A p \in Procs :
        (pc[p] = "done" /\ loc[p].op \in {"login", "register"})
        => LET status == RouteStatus(loc[p].op, loc[p].res)
               res == loc[p].res
           IN /\ res = "AccountLocked" => status = 423
              /\ res \in {"InvalidCredentials", "AccountInactive"} => status = 401
              /\ res = "DuplicateAccount" => status = 409
              /\ res = "WeakPassword" => status = 400
              /\ res = "DbError" => status = 503

\* C25: a login for an identity number that does not exist and a login
\* with a wrong password for an existing, active, unlocked user end with the
\* same error and the same status: the response does not tell whether the
\* identity number exists.
C25_SameErrorForUnknownAndWrong ==
    [][\A p \in Procs :
        (pc[p] \in {"login_log", "hfl_log"} /\ pc'[p] = "done"
            /\ loc[p].reason \in {"User not found", "Invalid password"})
        => /\ loc'[p].res = "InvalidCredentials"
           /\ RouteStatus("login", loc'[p].res) = 401
    ]_vars

\* both kinds of attempt have been made and answered
C25_Witness ==
    /\ \E i \in 1..Len(audit) : audit[i].detail = <<JaneNid, "User not found">>
    /\ \E i \in 1..Len(audit) : audit[i].detail = <<JohnNid, "Invalid password">>
    /\ \E p \in Procs : pc[p] = "done" /\ loc[p].res = "InvalidCredentials"

\* C26: a password-reset request with an email is answered with the same
\* success response whether or not the email belongs to a user, and also
\* when the call of the service fails.
C26_ForgotPasswordSameResponse ==
    \A p \in Procs :
        (pc[p] = "done" /\ loc[p].op = "forgotPassword" /\ loc[p].email # "")
        => loc[p].res = "ResetSent"

\* one request for the email of an account and one for an email of no
\* account have been answered
C26_Witness ==
    \E p, q \in Procs :
        /\ pc[p] = "done" /\ loc[p].op = "forgotPassword"
        /\ pc[q] = "done" /\ loc[q].op = "forgotPassword"
        /\ \E u \in UserIds : users[u].email = loc[p].email
        /\ loc[q].email # "" /\ \A u \in UserIds : users[u].email # loc[q].email

\* C27 (as stated): register and changePassword answer every new password
\* that misses a requirement of the policy with WeakPassword and leave the
\* users and the sessions unchanged.
C27_WeakPasswordRejected ==
    [][\A p \in Procs :
        (pc[p] = "idle" /\ pc'[p] # "idle"
            /\ loc'[p].op \in {"register", "changePassword"}
            /\ loc'[p].pw \in WeakPasswords)
        => /\ pc'[p] = "done"
           /\ loc'[p].res = "WeakPassword"
           /\ users' = users /\ sessions' = sessions
    ]_vars

\* C27 (amended): register and changePassword reject every new password
\* that misses a requirement of the policy and leave the users and the
\* sessions unchanged; the rejection is WeakPassword unless the check that
\* precedes the policy fails: DuplicateAccount when the identity number or the
\* email exists (register), the error of the current password when it is
\* wrong (changePassword).
C27_WeakPasswordNeverStored ==
    [][\A p \in Procs :
        (pc[p] = "idle" /\ pc'[p] # "idle"
            /\ loc'[p].op \in {"register", "changePassword"}
            /\ loc'[p].pw \in WeakPasswords)
        => LET l == loc'[p]
           IN /\ pc'[p] = "done"
              /\ users' = users /\ sessions' = sessions
              /\ l.op = "register" =>
                    l.res = IF ExistingUsers(l.nid, l.email) # {}
                            THEN "DuplicateAccount" ELSE "WeakPassword"
              /\ l.op = "changePassword" =>
                    l.res = IF ~verifyPassword(l.cur, users[l.uid].password)
                            THEN "CurrentPasswordIncorrect" ELSE "WeakPassword"
    ]_vars

\* a new password of eight characters that misses a requirement has been
\* answered with WeakPassword
C27_Witness ==
    \E p \in Procs :
        /\ pc[p] = "done" /\ loc[p].op \in {"register", "changePassword"}
        /\ loc[p].res = "WeakPassword"
        /\ Len(loc[p].pw) >= PASSWORD_MIN_LENGTH

\* C28: a login with the right password for an active, unlocked user
\* returns an access token and the user with the identity number presented,
\* and a request that carries the token right after the login passes every
\* check of authenticateToken as that user: the token verifies, the account
\* is active and unlocked, and whichever active session row matches the token
\* is not expired.
C28_LoginThenAuthenticated ==
    [][\A p \in Procs :
        (pc[p] = "login_audit" /\ pc'[p] = "done" /\ loc'[p].res = "ok"
            /\ users[loc[p].uid].status = "active"
            /\ ~IsLocked(users[loc[p].uid], now))
        => LET l == loc[p]
           IN /\ loc'[p].token = l.token /\ loc'[p].uid = l.uid
              /\ l.token # NoToken /\ l.token.type = "access"
              /\ users[l.uid].nationalId = l.nid
              /\ l.token.id = l.uid
              /\ AuthCheck(l.token, now)' = "ok"
              /\ ActiveSessionRows(l.uid, l.token)' # {}
              /\ \A s \in ActiveSessionRows(l.uid, l.token)' :
                    ~SessionExpired(sessions'[s], now')
    ]_vars

\* C29: a request without a bearer token, with a token that JWT_SECRET has
\* not signed or with a token past its lifetime is rejected by the first
\* step of authenticateToken and changes no user, no session and no audit
\* entry.
C29_VerificationFailsClosed ==
    [][\A p \in Procs :
        (pc[p] = "idle" /\ pc'[p] # "idle" /\ loc'[p].op = "auth"
            /\ (\/ loc'[p].token = NoToken
                \/ loc'[p].token.type # "access"
                \/ now >= loc'[p].token.exp))
        => /\ pc'[p] = "done"
           /\ loc'[p].res \in {"TokenRequired", "InvalidToken", "TokenExpired"}
           /\ users' = users /\ sessions' = sessions /\ audit' = audit
    ]_vars

\* a token past its lifetime has been rejected while its session is active
C29_Witness ==
    \E p \in Procs :
        /\ pc[p] = "done" /\ loc[p].op = "auth" /\ loc[p].res = "TokenExpired"
        /\ \E s \in SessionIds : sessions[s].token = loc[p].token /\ sessions[s].isActive

\* C30: request authentication takes an active session row of the token;
\* when the row is past its expiry it clears the active flag of that row,
\* changes nothing else (the last activity stays) and fails with
\* SessionExpired; otherwise it sets the last activity of that row to now,
\* changes no other field and succeeds.
C30_ExpiredMarkedElseTouched ==
    [][\A p \in Procs :
        /\ (pc[p] = "auth_session" /\ pc'[p] \in {"auth_expire", "auth_touch"})
           => LET s == loc'[p].sid
              IN /\ sessions[s].isActive
                 /\ sessions[s].token = loc[p].token
                 /\ pc'[p] = "auth_expire" <=> now > sessions[s].expiresAt
        /\ (pc[p] = "auth_expire" /\ pc'[p] = "done")
           => /\ loc'[p].res = "SessionExpired"
              /\ sessions' = [sessions EXCEPT ![loc[p].sid].isActive = FALSE]
        /\ (pc[p] = "auth_touch" /\ pc'[p] = "done")
           => /\ loc'[p].res = "ok"
              /\ sessions' = [sessions EXCEPT ![loc[p].sid].lastActivity = now]
    ]_vars

\* a request has failed with SessionExpired: the session is inactive and
\* its last activity is older than the request
C30_Witness ==
    \E p \in Procs :
        /\ pc[p] = "done" /\ loc[p].op = "auth" /\ loc[p].res = "SessionExpired"
        /\ ~sessions[loc[p].sid].isActive
        /\ sessions[loc[p].sid].lastActivity < now

\* C31: a run of the expiry sweep clears the active flag of exactly the
\* sessions that are active and past their expiry and changes nothing else,
\* and a second run right after it (the other of two concurrent runs: the
\* sweep is one statement) changes nothing.
C31_SweepExactAndIdempotent ==
    [][(pc' = pc /\ users' = users /\ now' = now)
        => /\ Len(sessions') = Len(sessions)
           /\ \A s \in SessionIds :
                 sessions'[s] = IF sessions[s].isActive /\ sessions[s].expiresAt < now
                                THEN [sessions[s] EXCEPT !.isActive = FALSE]
                                ELSE sessions[s]
           /\ SweptSessions' = sessions'
           /\ audit' = audit
    ]_vars

\* the sweep has retired an expired session and has left an active,
\* unexpired one alone
C31_Witness ==
    \E s, t \in SessionIds :
        /\ ~sessions[s].isActive /\ sessions[s].expiresAt < now
        /\ sessions[t].isActive /\ sessions[t].expiresAt >= now

\* C32: the active flag of a session is monotone: no step makes an inactive
\* session active, and the activity touch of a request changes the last
\* activity of its session and nothing else, whatever has happened to the
\* session since the request has read it.
C32_ActiveFlagMonotone ==
    [][/\ \A s \in SessionIds : ~sessions[s].isActive => ~sessions'[s].isActive
       /\ \A p \in Procs :
             (pc[p] = "auth_touch" /\ pc'[p] = "done")
             => sessions' = [sessions EXCEPT ![loc[p].sid].lastActivity = now]
    ]_vars

\* a request has touched a session that another request has retired in the
\* meantime
C32_Witness ==
    \E p, q \in Procs :
        /\ pc[p] = "done" /\ loc[p].op = "auth" /\ loc[p].res = "ok"
        /\ pc[q] = "done" /\ loc[q].op = "logout"
        /\ loc[q].sid = loc[p].sid
        /\ ~sessions[loc[p].sid].isActive

\* C33: once the time has passed the expiry of a session, no step makes
\* the session one that authenticates a request again (active and not past
\* its expiry).
C33_ExpiredStaysExpired ==
    [][\A s \in SessionIds :
        now > sessions[s].expiresAt
        => ~(sessions'[s].isActive /\ now' <= sessions'[s].expiresAt)
    ]_vars

\* C34: no request of a citizen on the own account (profile update,
\* password change, account deletion) changes the role of the user, and none
\* changes the status except the deletion of the account, which sets it to
\* inactive.
C34_RoleAndStatusAdminOnly ==
    [][\A u \in UserIds :
        /\ users'[u].role = users[u].role
        /\ users'[u].status # users[u].status
           => /\ users'[u].status = "inactive"
              /\ \E p \in Procs : pc[p] = "delacct_update" /\ loc[p].uid = u
    ]_vars

\* C35: a login or a bearer-token request whose check of the user row runs
\* while the status of that user is not active does not succeed: the request
\* is refused at that check (login goes to the failure log only), also when
\* the user has an active session that has not expired.
C35_NotActiveNeverAuthenticated ==
    [][\A p \in Procs :
        ( /\ pc[p] = "idle"
          /\ pc'[p] # "idle"
          /\ loc'[p].op \in {"login", "auth"}
          /\ \E u \in UserIds :
                /\ users[u].status # "active"
                /\ \/ loc'[p].op = "login" /\ users[u].nationalId = loc'[p].nid
                   \/ loc'[p].op = "auth" /\ loc'[p].token # NoToken
                                          /\ loc'[p].token.id = u )
        => ( /\ pc'[p] \in {"done", "login_log"}
             /\ loc'[p].res \notin {"ok", ""} )
    ]_vars

\* a bearer-token request was refused for the status of its user while the
\* session of the token is active and has not expired
C35_Witness ==
    \E p \in Procs :
        /\ pc[p] = "done"
        /\ loc[p].op = "auth"
        /\ loc[p].res = "AccountInactive"
        /\ users[loc[p].token.id].status # "active"
        /\ \E s \in SessionIds :
              /\ sessions[s].token = loc[p].token
              /\ sessions[s].isActive
              /\ now <= sessions[s].expiresAt

\* C36: without administrative locking, in every reachable state under
\* concurrent logins a user whose lockedUntil is set has failedAttempts at
\* or above MAX_LOGIN_ATTEMPTS: the reset of a successful login racing with
\* a failed attempt never leaves the lock set with a counter below it.
C36_LockedImpliesThreshold ==
    \A u \in UserIds :
        users[u].lockedUntil # NULL
        => users[u].failedAttempts >= MAX_LOGIN_ATTEMPTS

\* C37: after a failed-attempt lockout has lapsed, a single further login
\* attempt with a wrong password does not lock the account again.  The
\* attempt is the one that follows MAX_LOGIN_ATTEMPTS consecutive wrong
\* passwords (the last of which set the lock) and that finds the lock
\* lapsed: its handleFailedLogin leaves lockedUntil as it is.
C37_NoRelockAfterOneAttempt ==
    [][\A p \in Procs :
        ( /\ pc[p] = "hfl_lock"
          /\ pc'[p] # "hfl_lock"
          /\ streak[loc[p].nid] = MAX_LOGIN_ATTEMPTS + 1
          /\ users[loc[p].uid].lockedUntil # NULL
          /\ users[loc[p].uid].lockedUntil <= now )
        => users'[loc[p].uid].lockedUntil = users[loc[p].uid].lockedUntil
    ]_vars

\* C38: unlockUser changes only a locked account: an administrative
\* statement (a step that belongs to no request slot and leaves the clock)
\* applied to a user whose status is inactive or suspended does not set
\* the status to active.
C38_UnlockOnlyLocked ==
    [][\A u \in UserIds :
        ( /\ users[u].status \in {"inactive", "suspended"}
          /\ pc' = pc
          /\ now' = now )
        => users'[u].status # "active"
    ]_vars

\* C39: an extension request changes only a session owned by the
\* authenticated caller: whatever session id the request names, the
\* expiresAt of a session of another user is left as it is.
C39_ExtendOnlyOwnSession ==
    [][\A p \in Procs, s \in SessionIds :
        ( /\ pc[p] = "idle"
          /\ pc'[p] = "done"
          /\ loc'[p].op = "extend"
          /\ sessions[s].userId # loc'[p].uid )
        => sessions'[s].expiresAt = sessions[s].expiresAt
    ]_vars

\* C40: when a logout request at the endpoint that carries the bearer token
\* of an active session and names that session completes successfully, the
\* session is inactive and no active session row is left for the token, so
\* that a later request with the token is rejected.
C40_LogoutEndsSession ==
    [][\A p \in Procs :
        ( /\ pc[p] # "done"
          /\ pc'[p] = "done"
          /\ loc'[p].op = "logoutRoute"
          /\ loc'[p].res = "ok"
          /\ loc'[p].sid \in SessionIds
          /\ sessions[loc'[p].sid].isActive
          /\ sessions[loc'[p].sid].token = loc'[p].token
          /\ loc'[p].token # NoToken )
        => /\ ~sessions'[loc'[p].sid].isActive
           /\ \A s \in SessionIds :
                 sessions'[s].token = loc'[p].token => ~sessions'[s].isActive
    ]_vars

====
